---- MODULE Spec2Model ----
(***************************************************************************)
(* Model of the plugin backend in src/main.py: the owner gate, the upload  *)
(* transaction (blob write, metadata insert, rollback), the listing        *)
(* projection and the download service with its counter.                   *)
(*                                                                         *)
(* Python values are modelled as follows.                                  *)
(*   str used only for equality     a TLA+ string                          *)
(*   str that the code takes apart  a sequence of one-character strings    *)
(*   Optional[x]                    <<>> for None, <<x>> otherwise         *)
(*   bytes                          a sequence of small naturals           *)
(*   a stored document (dict)       a record; an absent key is an absent   *)
(*                                  field (see Get)                        *)
(***************************************************************************)
EXTENDS Naturals, Sequences, FiniteSets, TLC

VARIABLES
  env,       \* OWNER_KEY of the process environment: Optional[str]
  now,       \* the wall clock, in ticks of 1/TicksPerSecond second
  blobs,     \* the Blob Store: stored file name -> bytes, for the files that exist
  records,   \* the Metadata Store's "plugin" collection in insertion order
  hist,      \* history, parallel to records: what each upload sent, what was served
  up,        \* the upload requests in flight, one per handler slot
  dl,        \* the download requests in flight, one per handler slot
  resp,      \* the last answer to an upload, a download or a listing, with its request
  vresp      \* the last answer of POST /api/auth/verify, with its request

vars == <<env, now, blobs, records, hist, up, dl, resp, vresp>>

------------------------------------------------------------------------------
(* Bounds of the model *)

MaxNow == 2

TicksPerSecond == 2

MaxRecords == 2

MaxDownloads == 2

MaxListed == 2

Uploaders == {"u1", "u2"}

Downloaders == {"d1", "d2"}

------------------------------------------------------------------------------
(* Optional values and strings *)

None == <<>>

Some(x) == <<x>>

\* Python truthiness of an Optional[str] held as Optional of a character sequence
Truthy(opt) == opt # None /\ opt[1] # <<>>

\* the upper-case letters the inputs use, with their lower-case forms
LowerOf ==
  ("A" :> "a") @@ ("B" :> "b") @@ ("C" :> "c") @@ ("D" :> "d") @@ ("E" :> "e")
    @@ ("F" :> "f") @@ ("J" :> "j") @@ ("R" :> "r")

LowerChar(c) == IF c \in DOMAIN LowerOf THEN LowerOf[c] ELSE c

Lower(s) == [i \in 1..Len(s) |-> LowerChar(s[i])]

EndsWith(s, suffix) ==
  /\ Len(s) >= Len(suffix)
  /\ SubSeq(s, Len(s) - Len(suffix) + 1, Len(s)) = suffix

\* os.path.basename on POSIX: what follows the last "/"
Basename(s) ==
  LET slashes == {i \in 1..Len(s) : s[i] = "/"}
  IN  IF slashes = {} THEN s
      ELSE SubSeq(s, (CHOOSE i \in slashes : \A j \in slashes : j <= i) + 1, Len(s))

\* str.replace(" ", "_")
ReplaceSpaces(s) == [i \in 1..Len(s) |-> IF s[i] = " " THEN "_" ELSE s[i]]

Digits == <<"0", "1", "2", "3", "4", "5", "6", "7", "8", "9">>

HexDigits == Digits \o <<"a", "b", "c", "d", "e", "f">>

HexChars == {HexDigits[k] : k \in 1..Len(HexDigits)}

\* The clock starts at 2024-01-01 00:00:00 UTC and MaxNow keeps it inside the
\* first minute, so only the seconds field of %Y%m%d%H%M%S moves.
Timestamp(t) ==
  LET sec == t \div TicksPerSecond
  IN  <<"2", "0", "2", "4", "0", "1", "0", "1", "0", "0", "0", "0">>
        \o <<Digits[(sec \div 10) + 1], Digits[(sec % 10) + 1]>>

DefaultFileName == <<"p", "l", "u", "g", "i", "n", ".", "j", "a", "r">>

JarSuffix == <<".", "j", "a", "r">>

------------------------------------------------------------------------------
(* Owner Gate *)

DefaultOwnerKey == "changeme"

\* os.getenv("OWNER_KEY", "changeme")
OwnerKey == IF env = None THEN DefaultOwnerKey ELSE env[1]

\* verify_owner: body.key and body.key == owner_key
VerifyAccepts(key, owner_key) == key # "" /\ key = owner_key

\* A faulty variant of UploadRejectsKey: only a header that is present is compared, so a
\* request without the header passes.
UploadRejectsKeyIfPresent(x_owner_key, owner_key) ==
  x_owner_key # None /\ x_owner_key # Some(owner_key)

\* upload_plugin: x_owner_key != owner_key
UploadRejectsKey(x_owner_key, owner_key) == x_owner_key # Some(owner_key)

------------------------------------------------------------------------------
(* Stored documents and the Metadata Store *)

\* dict.get(key, default)
Get(doc, key, default) == IF key \in DOMAIN doc THEN doc[key] ELSE default

\* str(ObjectId) of the n-th document the store creates: 24 hexadecimal digits
ObjectIdStr(n) == [i \in 1..24 |-> IF i = 24 THEN HexDigits[n + 1] ELSE "0"]

\* ObjectId(plugin_id): None stands for bson.errors.InvalidId
ParseObjectId(plugin_id) ==
  IF /\ Len(plugin_id) = 24
     /\ \A i \in 1..24 : LowerChar(plugin_id[i]) \in HexChars
  THEN Some(Lower(plugin_id))
  ELSE None

\* create_document("plugin", doc): the store adds _id and created_at
CreateDocument(recs, doc, t) ==
  Append(recs, ("_id" :> ObjectIdStr(Len(recs) + 1)) @@ ("created_at" :> t) @@ doc)

\* db["plugin"].find_one({"_id": oid}): Optional[document]
FindOne(recs, oid) ==
  LET hits == {i \in 1..Len(recs) : Get(recs[i], "_id", None) = oid}
  IN  IF hits = {} THEN None ELSE Some(recs[CHOOSE i \in hits : \A j \in hits : i <= j])

\* get_documents("plugin", {}, limit)
GetDocuments(recs, limit) ==
  IF limit = None \/ limit[1] >= Len(recs) THEN recs ELSE SubSeq(recs, 1, limit[1])

\* A faulty variant of IncDownloadCount: $set of 1 in place of $inc by 1.
SetDownloadCount(recs, oid) ==
  LET hits == {i \in 1..Len(recs) : Get(recs[i], "_id", None) = oid}
  IN  IF hits = {} THEN recs
      ELSE LET k == CHOOSE i \in hits : \A j \in hits : i <= j
           IN  [recs EXCEPT ![k] = ("download_count" :> 1) @@ recs[k]]

\* update_one({"_id": oid}, {"$inc": {"download_count": 1}}), applied to the first match
IncDownloadCount(recs, oid) ==
  LET hits == {i \in 1..Len(recs) : Get(recs[i], "_id", None) = oid}
  IN  IF hits = {} THEN recs
      ELSE LET k == CHOOSE i \in hits : \A j \in hits : i <= j
           IN  [recs EXCEPT ![k] =
                  ("download_count" :> (Get(recs[k], "download_count", 0) + 1)) @@ recs[k]]

------------------------------------------------------------------------------
(* Blob Store *)

Exists(store, name) == name \in DOMAIN store

\* open(path, "wb"); f.write(contents)
WriteBlob(store, name, contents) == (name :> contents) @@ store

\* os.remove(path); a missing file raises, which the caller swallows
RemoveBlob(store, name) == [n \in (DOMAIN store) \ {name} |-> store[n]]

\* the state of one path: None when no file is there, else its bytes
BlobAt(store, name) == IF Exists(store, name) THEN Some(store[name]) ELSE None

------------------------------------------------------------------------------
(* Upload Transaction: the pure parts *)

\* file.filename or "plugin.jar"
EffectiveName(filename) == IF Truthy(filename) THEN filename[1] ELSE DefaultFileName

\* A faulty variant of ValidExtension: the suffix compared lacks its dot.
ValidExtensionNoDot(original_name) == EndsWith(Lower(original_name), <<"j", "a", "r">>)

\* original_name.lower().endswith(".jar")
ValidExtension(original_name) == EndsWith(Lower(original_name), JarSuffix)

\* f"{timestamp}_{safe_base}"
StoredName(t, original_name) ==
  Timestamp(t) \o <<"_">> \o ReplaceSpaces(Basename(original_name))

\* the metadata document of an upload
PluginDoc(form, stored_name, original_name, contents) ==
  [name |-> form.name, description |-> form.description, version |-> form.version,
   filename |-> stored_name, original_name |-> original_name,
   file_size |-> Len(contents), download_count |-> 0]

------------------------------------------------------------------------------
(* Listing Service: the projection *)

\* it.get(key) of a key whose stored value is not itself an Optional
GetOpt(doc, key) == IF key \in DOMAIN doc THEN Some(doc[key]) ELSE None

NoneStr == <<"N", "o", "n", "e">>

\* A faulty variant of Project: the document's own fields are passed on, the stored file
\* name with them.
ProjectWithFilename(it) ==
  [id |-> Get(it, "_id", NoneStr),
   name |-> GetOpt(it, "name"),
   description |-> Get(it, "description", None),
   version |-> Get(it, "version", None),
   filename |-> GetOpt(it, "filename"),
   original_name |-> GetOpt(it, "original_name"),
   file_size |-> Get(it, "file_size", 0),
   download_count |-> Get(it, "download_count", 0),
   created_at |-> GetOpt(it, "created_at")]

\* one entry of the listing
Project(it) ==
  [id |-> Get(it, "_id", NoneStr),
   name |-> GetOpt(it, "name"),
   description |-> Get(it, "description", None),
   version |-> Get(it, "version", None),
   original_name |-> GetOpt(it, "original_name"),
   file_size |-> Get(it, "file_size", 0),
   download_count |-> Get(it, "download_count", 0),
   created_at |-> GetOpt(it, "created_at")]

ListPluginsResult(recs, limit) ==
  LET items == GetDocuments(recs, limit)
  IN  [i \in 1..Len(items) |-> Project(items[i])]

------------------------------------------------------------------------------
(* Inputs *)

Contents == {<<1>>, <<2, 3>>}

FileNames ==
  { None,
    Some(<<>>),
    Some(<<"a", "_", "b", ".", "J", "A", "R">>),
    Some(<<"d", "/", "a", " ", "b", ".", "J", "A", "R">>),
    Some(<<"a", "j", "a", "r">>),
    Some(<<"a", ".", "t", "x", "t">>) }

\* the file names an owner uploads in Spec
JarNames == { Some(<<"A", " ", "b", ".", "J", "A", "R">>) }

Forms == { [name |-> "Foo", description |-> None, version |-> Some("1.0")] }

EnvKeys == { None, Some(""), Some("s3cret") }

Tokens == { "", "changeme", "s3cret", "wrong" }

HeaderKeys == { None } \cup { Some(t) : t \in Tokens }

\* documents the collection may hold: those of uploads, and older or foreign ones
\* that lack fields
DocSamples ==
  { [_id |-> ObjectIdStr(1), name |-> "Foo", description |-> None, version |-> Some("1.0"),
     filename |-> <<"f", "1">>, original_name |-> <<"a", ".", "j", "a", "r">>,
     file_size |-> 2, download_count |-> 1, created_at |-> 0],
    [_id |-> ObjectIdStr(2), name |-> "Bar", description |-> Some("d"), version |-> None,
     filename |-> <<"f", "2">>, original_name |-> <<"b", ".", "j", "a", "r">>,
     download_count |-> 0, created_at |-> 1],
    [_id |-> ObjectIdStr(3), name |-> "Baz", filename |-> <<"f", "3">>,
     file_size |-> 1, created_at |-> 1],
    [_id |-> ObjectIdStr(4), name |-> "Qux", filename |-> <<"f", "4">>],
    [_id |-> ObjectIdStr(5), filename |-> <<"f", "5">>, file_size |-> 0,
     download_count |-> 2] }

MalformedId == <<"a", "b", "c">>

PluginIds == { ObjectIdStr(n) : n \in 1..MaxRecords } \cup { MalformedId }

Limits == { None } \cup { Some(n) : n \in 1..MaxRecords }

------------------------------------------------------------------------------
(* Request slots and responses *)

IdleUpload ==
  [pc |-> "idle", x_owner_key |-> None, filename |-> None, contents |-> <<>>,
   form |-> None, original_name |-> <<>>, stored_name |-> <<>>,
   pre |-> None]      \* history: the state of the stored path when the upload began

IdleDownload ==
  [pc |-> "idle", plugin_id |-> <<>>, stored_name |-> <<>>, original_name |-> <<>>]

\* an upload's answer: HTTP status, the new id (200) or the error detail
UploadResponse(req, status, id, detail) ==
  Some([kind |-> "upload", x_owner_key |-> req.x_owner_key, filename |-> req.filename,
        status |-> status, id |-> id, detail |-> detail])

\* a download's answer: HTTP status, error detail, or the bytes and the suggested name
DownloadResponse(plugin_id, status, detail, body, filename) ==
  Some([kind |-> "download", plugin_id |-> plugin_id, status |-> status, detail |-> detail,
        body |-> body, filename |-> filename])

UploadsInFlight == Cardinality({u \in Uploaders : up[u].pc # "idle"})

DownloadsInFlight == Cardinality({d \in Downloaders : dl[d].pc \in {"exists", "respond"}})

Served == LET RECURSIVE Sum(_)
              Sum(i) == IF i = 0 THEN 0 ELSE hist[i].served + Sum(i - 1)
          IN  Sum(Len(hist))

InsertError == "Database not available"

\* upload_plugin is an async def: it runs on the event loop, which it gives up only
\* at its await, so from the write of the blob to its answer no other upload runs.
\* The other handlers are plain defs and run on worker threads beside it.
EventLoopFree == \A u \in Uploaders : up[u].pc \notin {"insert", "rollback"}

------------------------------------------------------------------------------
(* Initial states *)

\* a fresh deployment: both stores empty, no request yet
Fresh ==
  /\ now = 0
  /\ blobs = <<>>
  /\ records = <<>>
  /\ hist = <<>>
  /\ up = [u \in Uploaders |-> IdleUpload]
  /\ dl = [d \in Downloaders |-> IdleDownload]
  /\ resp = None
  /\ vresp = None

\* OWNER_KEY unset: the secret is the default
Init == env = None /\ Fresh

\* OWNER_KEY unset, set to the empty string, or set to a secret
InitGate == env \in EnvKeys /\ Fresh

------------------------------------------------------------------------------
(* Actions *)

Tick ==
  /\ now < MaxNow
  /\ now' = now + 1
  /\ UNCHANGED <<env, blobs, records, hist, up, dl, resp, vresp>>

\* POST /api/auth/verify
VerifyOwner(key) ==
  /\ vresp' = Some([key |-> key,
                    status |-> IF VerifyAccepts(key, OwnerKey) THEN 200 ELSE 401])
  /\ UNCHANGED <<env, now, blobs, records, hist, up, dl, resp>>

\* GET /api/plugins
ListPlugins(limit) ==
  /\ resp' = Some([kind |-> "list", limit |-> limit, status |-> 200,
                   plugins |-> ListPluginsResult(records, limit)])
  /\ UNCHANGED <<env, now, blobs, records, hist, up, dl, vresp>>

\* POST /api/plugins/upload, up to the await of file.read()
UploadBegin(u, x_owner_key, filename, contents, form) ==
  /\ up[u].pc = "idle"
  /\ EventLoopFree
  /\ LET req == [IdleUpload EXCEPT !.x_owner_key = x_owner_key, !.filename = filename]
         original_name == EffectiveName(filename)
     IN  IF UploadRejectsKey(x_owner_key, OwnerKey)
         THEN /\ resp' = UploadResponse(req, 401, None, "Unauthorized")
              /\ up' = up
         ELSE IF ~ValidExtension(original_name)
         THEN /\ resp' = UploadResponse(req, 400, None, "Only .jar files are allowed")
              /\ up' = up
         ELSE /\ Len(records) + UploadsInFlight < MaxRecords
              /\ up' = [up EXCEPT ![u] =
                   [req EXCEPT !.pc = "read", !.contents = contents, !.form = Some(form),
                               !.original_name = original_name,
                               !.stored_name = StoredName(now, original_name),
                               !.pre = Some(BlobAt(blobs, StoredName(now, original_name)))]]
              /\ resp' = resp
  /\ UNCHANGED <<env, now, blobs, records, hist, dl, vresp>>

\* contents = await file.read(); open(stored_path, "wb"); f.write(contents)
UploadWrite(u) ==
  /\ up[u].pc = "read"
  /\ EventLoopFree
  /\ blobs' = WriteBlob(blobs, up[u].stored_name, up[u].contents)
  /\ up' = [up EXCEPT ![u].pc = "insert"]
  /\ UNCHANGED <<env, now, records, hist, dl, resp, vresp>>

\* create_document succeeds: {"ok": True, "id": new_id}
UploadInsert(u) ==
  /\ up[u].pc = "insert"
  /\ records' = CreateDocument(records,
                   PluginDoc(up[u].form[1], up[u].stored_name, up[u].original_name,
                             up[u].contents), now)
  /\ hist' = Append(hist, [filename |-> up[u].filename, contents |-> up[u].contents,
                           served |-> 0])
  /\ resp' = UploadResponse(up[u], 200, Some(records'[Len(records')]["_id"]), "")
  /\ up' = [up EXCEPT ![u] = IdleUpload]
  /\ UNCHANGED <<env, now, blobs, dl, vresp>>

\* create_document raises
UploadInsertFails(u) ==
  /\ up[u].pc = "insert"
  /\ up' = [up EXCEPT ![u].pc = "rollback"]
  /\ UNCHANGED <<env, now, blobs, records, hist, dl, resp, vresp>>

\* os.remove(stored_path), its failure swallowed; then the 500 with the insert error
UploadRollback(u) ==
  /\ up[u].pc = "rollback"
  /\ blobs' = RemoveBlob(blobs, up[u].stored_name)
  /\ resp' = UploadResponse(up[u], 500, None, InsertError)
  /\ up' = [up EXCEPT ![u] = IdleUpload]
  /\ UNCHANGED <<env, now, records, hist, dl, vresp>>

\* GET /api/plugins/{plugin_id}/download: ObjectId(plugin_id) and find_one
DownloadFind(d, plugin_id) ==
  /\ dl[d].pc = "idle"
  /\ LET oid == ParseObjectId(plugin_id)
         it == IF oid = None THEN None ELSE FindOne(records, oid[1])
     IN  IF oid = None
         THEN /\ resp' = DownloadResponse(plugin_id, 500, "InvalidId", <<>>, <<>>)
              /\ dl' = dl
         ELSE IF it = None
         THEN /\ resp' = DownloadResponse(plugin_id, 404, "Not found", <<>>, <<>>)
              /\ dl' = dl
         ELSE IF GetOpt(it[1], "filename") = None
         THEN /\ resp' = DownloadResponse(plugin_id, 500, "TypeError", <<>>, <<>>)
              /\ dl' = dl
         ELSE /\ Served + DownloadsInFlight < MaxDownloads
              /\ dl' = [dl EXCEPT ![d] =
                   [pc |-> "exists", plugin_id |-> plugin_id,
                    stored_name |-> it[1].filename,
                    original_name |-> IF Truthy(GetOpt(it[1], "original_name"))
                                      THEN it[1].original_name ELSE it[1].filename]]
              /\ resp' = resp
  /\ UNCHANGED <<env, now, blobs, records, hist, up, vresp>>

\* os.path.exists(file_path)
DownloadExists(d) ==
  /\ dl[d].pc = "exists"
  /\ IF Exists(blobs, dl[d].stored_name)
     THEN /\ dl' = [dl EXCEPT ![d].pc = "respond"]
          /\ resp' = resp
     ELSE /\ dl' = [dl EXCEPT ![d] = IdleDownload]
          /\ resp' = DownloadResponse(dl[d].plugin_id, 404, "File missing on server",
                                       <<>>, <<>>)
  /\ UNCHANGED <<env, now, blobs, records, hist, up, vresp>>

\* the history's count of the FileResponses the handler returned for this id
NoteServed(h, recs, oid) ==
  [i \in 1..Len(h) |->
     IF Get(recs[i], "_id", None) = oid THEN [h[i] EXCEPT !.served = @ + 1] ELSE h[i]]

\* update_one(... $inc ...); return FileResponse(path, filename=original_name)
DownloadRespond(d) ==
  /\ dl[d].pc = "respond"
  /\ LET oid == ParseObjectId(dl[d].plugin_id)[1]
     IN  /\ records' = IncDownloadCount(records, oid)
         /\ hist' = NoteServed(hist, records, oid)
  /\ dl' = [dl EXCEPT ![d].pc = "stream"]
  /\ UNCHANGED <<env, now, blobs, up, resp, vresp>>

\* the FileResponse is sent: the file is read now, and a file that is gone by now
\* makes the answer a 500
DownloadStream(d) ==
  /\ dl[d].pc = "stream"
  /\ IF Exists(blobs, dl[d].stored_name)
     THEN resp' = DownloadResponse(dl[d].plugin_id, 200, "",
                                    blobs[dl[d].stored_name], dl[d].original_name)
     ELSE resp' = DownloadResponse(dl[d].plugin_id, 500, "File at path does not exist",
                                    <<>>, <<>>)
  /\ dl' = [dl EXCEPT ![d] = IdleDownload]
  /\ UNCHANGED <<env, now, blobs, records, hist, up, vresp>>

------------------------------------------------------------------------------
(* Specifications *)

Upload(u, keys, names) ==
  \/ \E k \in keys, f \in names, c \in Contents, form \in Forms :
        UploadBegin(u, k, f, c, form)
  \/ UploadWrite(u)
  \/ UploadInsert(u)
  \/ UploadInsertFails(u)
  \/ UploadRollback(u)

Download(d) ==
  \/ \E id \in PluginIds : DownloadFind(d, id)
  \/ DownloadExists(d)
  \/ DownloadRespond(d)
  \/ DownloadStream(d)

\* Uploads by the owner and downloads by anyone, interleaved, on a fresh deployment
\* with OWNER_KEY unset.
Next ==
  \/ Tick
  \/ \E u \in Uploaders : Upload(u, {Some(DefaultOwnerKey)}, JarNames)
  \/ \E d \in Downloaders : Download(d)

Spec == Init /\ [][Next]_vars

\* The owner gate in its two call shapes, over every configuration of OWNER_KEY
\* and every credential.
NextGate ==
  \/ \E key \in Tokens : VerifyOwner(key)
  \/ \E u \in Uploaders : Upload(u, HeaderKeys, JarNames)

SpecGate == InitGate /\ [][NextGate]_vars

\* The listing over a collection that holds any documents.
InitList ==
  /\ env = None
  /\ now = 0
  /\ blobs = <<>>
  /\ records \in { r \in UNION { [1..n -> DocSamples] : n \in 0..MaxListed } :
                      \A i, j \in 1..Len(r) : i # j => r[i] # r[j] }
  /\ hist = [i \in 1..Len(records) |-> [filename |-> None, contents |-> <<>>, served |-> 0]]
  /\ up = [u \in Uploaders |-> IdleUpload]
  /\ dl = [d \in Downloaders |-> IdleDownload]
  /\ resp = None
  /\ vresp = None

NextList == \E limit \in Limits : ListPlugins(limit)

SpecList == InitList /\ [][NextList]_vars

\* The owner's uploads alone, over every file name, on a fresh deployment with
\* OWNER_KEY unset.
NextUpload == \E u \in Uploaders : Upload(u, {Some(DefaultOwnerKey)}, FileNames)

SpecUpload == Init /\ [][NextUpload]_vars

\* Uploads and downloads interleaved within one second of the clock: the counter
\* of a record depends on the downloads of its id, not on the upload time.
NextCount ==
  \/ \E u \in Uploaders : Upload(u, {Some(DefaultOwnerKey)}, JarNames)
  \/ \E d \in Downloaders : Download(d)

SpecCount == Init /\ [][NextCount]_vars

------------------------------------------------------------------------------
(* Properties *)

IsUploadResponse(r) == r # None /\ r[1].kind = "upload"

IsDownloadResponse(r) == r # None /\ r[1].kind = "download"

IsListResponse(r) == r # None /\ r[1].kind = "list"

\* the records stored under this id string
RecordsOf(plugin_id) == {i \in 1..Len(records) : records[i]["_id"] = plugin_id}

\* a file name ends in ".jar", letters of either case
EndsInJar(name) ==
  /\ Len(name) >= 4
  /\ name[Len(name) - 3] = "."
  /\ name[Len(name) - 2] \in {"j", "J"}
  /\ name[Len(name) - 1] \in {"a", "A"}
  /\ name[Len(name)] \in {"r", "R"}

\* C1: every successful download of an id returns the bytes that the upload which
\* created the id sent, and suggests that upload's original file name.
C1_RoundTrip ==
  (IsDownloadResponse(resp) /\ resp[1].status = 200) =>
     \A i \in RecordsOf(resp[1].plugin_id) :
        /\ resp[1].body = hist[i].contents
        /\ Some(resp[1].filename) = hist[i].filename

\* C2: an upload whose credential is not the configured secret, a missing header
\* included, is answered 401 and its answer leaves both stores as they were.
C2_UnauthorizedUploadWritesNothing ==
  [][ (resp' # resp /\ IsUploadResponse(resp')
         /\ resp'[1].x_owner_key # Some(OwnerKey))
      => (resp'[1].status = 401 /\ blobs' = blobs /\ records' = records) ]_vars

C2_Witness ==
  /\ IsUploadResponse(resp)
  /\ resp[1].x_owner_key = None
  /\ resp[1].status = 401
  /\ Len(records) > 0
  /\ blobs # <<>>

\* C3: the download_count of every record is the number of downloads of its id for
\* which the handler returned the file response; downloads answered not-found add
\* nothing.
C3_DownloadCountIsServed ==
  /\ Len(hist) = Len(records)
  /\ \A i \in 1..Len(records) : records[i].download_count = hist[i].served

C3_Witness ==
  \E i \in 1..Len(records) : records[i].download_count = 2 /\ hist[i].served = 2

\* C4: an upload whose metadata insert fails answers 500 with the insert error, adds
\* no record, and leaves the stored path as it was before the upload began.
C4_RollbackRestores ==
  [][ \A u \in Uploaders :
        (up[u].pc = "rollback" /\ up'[u].pc = "idle")
        => /\ IsUploadResponse(resp')
           /\ resp'[1].status = 500
           /\ resp'[1].detail = InsertError
           /\ records' = records
           /\ BlobAt(blobs', up[u].stored_name) = up[u].pre[1] ]_vars

\* C5 as stated: an upload with the right credential whose original file name does
\* not end in ".jar" is answered 400 and writes nothing.
C5_NotJarRejected ==
  [][ (resp' # resp /\ IsUploadResponse(resp')
         /\ resp'[1].x_owner_key = Some(OwnerKey)
         /\ ~(Truthy(resp'[1].filename) /\ EndsInJar(resp'[1].filename[1])))
      => (resp'[1].status = 400 /\ blobs' = blobs /\ records' = records) ]_vars

\* C5 as amended: an upload with the right credential whose original file name is
\* present, not empty and does not end in ".jar" is answered 400 and writes nothing.
C5_NamedNotJarRejected ==
  [][ (resp' # resp /\ IsUploadResponse(resp')
         /\ resp'[1].x_owner_key = Some(OwnerKey)
         /\ Truthy(resp'[1].filename) /\ ~EndsInJar(resp'[1].filename[1]))
      => (resp'[1].status = 400 /\ blobs' = blobs /\ records' = records) ]_vars

C5_Witness ==
  /\ IsUploadResponse(resp)
  /\ resp[1].x_owner_key = Some(OwnerKey)
  /\ resp[1].filename = Some(<<"a", ".", "t", "x", "t">>)
  /\ resp[1].status = 400
  /\ Len(records) > 0
  /\ blobs # <<>>

\* C6: a download of an id string under which no record is stored is answered 404.
C6_UnknownIdNotFound ==
  (IsDownloadResponse(resp) /\ RecordsOf(resp[1].plugin_id) = {})
     => resp[1].status = 404

\* C7: no two records have the same stored file name.
C7_StoredNamesUnique ==
  \A i, j \in 1..Len(records) :
     i # j => records[i].filename # records[j].filename

\* C8: the verify endpoint and the upload's authorization decide alike on the same
\* token.
C8_GateShapesAgree ==
  (vresp # None /\ IsUploadResponse(resp) /\ resp[1].x_owner_key = Some(vresp[1].key))
     => (vresp[1].status = 200 <=> resp[1].status # 401)

ListedFields ==
  {"id", "name", "description", "version", "original_name", "file_size",
   "download_count", "created_at"}

\* C9: every listed entry has exactly the eight public fields, so never the stored
\* file name, and its file_size is the record's, or 0 when the record has none.
C9_ListingShape ==
  IsListResponse(resp) =>
     \A i \in 1..Len(resp[1].plugins) :
        /\ DOMAIN resp[1].plugins[i] = ListedFields
        /\ resp[1].plugins[i].file_size =
              (IF "file_size" \in DOMAIN records[i] THEN records[i].file_size ELSE 0)

C9_Witness ==
  /\ IsListResponse(resp)
  /\ \E i \in 1..Len(resp[1].plugins) :
        "file_size" \notin DOMAIN records[i] /\ resp[1].plugins[i].file_size = 0

\* C10: every record's blob is present under its stored file name, and no download
\* is answered "File missing on server".
C10_NoDanglingRecord ==
  /\ \A i \in 1..Len(records) : Exists(blobs, records[i].filename)
  /\ ~(IsDownloadResponse(resp) /\ resp[1].detail = "File missing on server")

====
